---- MODULE Spec2Model ----
(***************************************************************************)
(* Model of apps/automation-gateway/src/main.py as it is shipped, and of   *)
(* run_jcl and the health endpoints of apps/automation-api.                *)
(*                                                                         *)
(* The gateway module imports FastAPI and HTTPException only (line 14).    *)
(* The def statement of create_job (line 212) evaluates the annotation     *)
(* BackgroundTasks, a name bound nowhere, and raises NameError: the import *)
(* of the module fails there. What lines 113-207 had bound (the metrics,   *)
(* run_job of lines 132-162, the jobs dict, the app) goes with the module, *)
(* and nothing from line 212 on (create_job, run_job of lines 230-246,     *)
(* get_job_status, health) is ever defined or served.                      *)
(***************************************************************************)
EXTENDS Integers, Sequences, FiniteSets, TLC

\* ------------------------------------------------------------------ bounds
\* number of requests sent to the gateway in the model
MaxCalls == 3
\* number of POST /run-jcl requests the model accepts
MaxRuns == 2

\* ------------------------------------------------------------- value sets
\* Optional[...] of Python: None is the empty sequence, a value v is <<v>>
None == <<>>
Some(v) == <<v>>

\* str(uuid.uuid4()): a string of 36 characters, written as its first 8
\* characters (head) and the 28 that follow (tail, the tails being numbered).
\* The model draws from UUIDs with two different heads, enough with either
\* head for every call of a bounded run: main.py calls uuid4 twice per
\* request (lines 242 and 172).
Heads == <<"0f3a91c2", "7be4d015">>
UUID == [head : {Heads[i] : i \in DOMAIN Heads}, tail : 1..(2 * MaxRuns)]

\* s[:8] of a UUID string s
First8(u) == u.head

\* JobRequest bodies sent to the gateway in the model: action and target
JobRequests == {[action |-> "restart", target |-> "mainframe1"],
                [action |-> "deploy", target |-> "mainframe2"]}

VARIABLES
    gateway,                    \* how far the import of the gateway module got
    calls,                      \* the requests sent to the gateway, in order,
                                \* each with the answer it was given
    issued,                     \* UUIDs uuid.uuid4() has returned so far
    observed,                   \* the answer of GET /health of the
                                \* automation-api, when the step just taken is
                                \* that request; "none" otherwise
    runs,                       \* the run_jcl requests of the automation-api, in
                                \* order of arrival: position, job_id, response
    key_req,                    \* a run_jcl request whose S3 keys, or whose engine
                                \* variables, are being built
    key_out                     \* what was built for key_req, None before

vars == <<gateway, calls, issued, observed, runs, key_req, key_out>>

\* a dict with one key added or replaced: d[k] = v
DictSet(d, k, v) == [x \in DOMAIN d \cup {k} |-> IF x = k THEN v ELSE d[x]]

\* no health request is answered by this step
NoLookup == observed' = [kind |-> "none"]

\* uuid.uuid4(): a UUID that no earlier call returned. What a run depends on
\* is which calls return UUIDs with the same head, not which head or tail
\* they are: of the UUIDs that differ by a renaming only, the model draws
\* one, the first head not drawn yet and the lowest tail not drawn yet.
Uuid4(u) ==
    /\ u \in UUID \ issued
    /\ \A i \in 1..Len(Heads) :
          u.head = Heads[i] =>
              \A j \in 1..(i - 1) : \E v \in issued : v.head = Heads[j]
    /\ \A t \in 1..(u.tail - 1) : [head |-> u.head, tail |-> t] \in issued
    /\ issued' = issued \cup {u}

Init ==
    /\ gateway = "importing"
    /\ calls = << >>
    /\ issued = {}
    /\ observed = [kind |-> "none"]
    /\ runs = << >>
    /\ key_req = None
    /\ key_out = None

\* ------------------------------------------------------ automation-gateway
\* what the gateway leaves alone: the automation-api's state
GatewayFrame == UNCHANGED <<issued, observed, runs, key_req, key_out>>

\* the import of the module (lines 1-212): the statements run in order up to
\* the def of create_job, whose annotation raises NameError
import_main ==
    /\ gateway = "importing"
    /\ gateway' = "NameError"
    /\ UNCHANGED calls
    /\ GatewayFrame

\* a request for a route of the module: no app serves it, before the import
\* has ended as after it has failed, so the request gets no answer
Unanswered(route, arg) ==
    /\ Len(calls) < MaxCalls
    /\ calls' = Append(calls, [route |-> route, arg |-> arg, answer |-> None])
    /\ UNCHANGED gateway
    /\ GatewayFrame

\* POST /v1/jobs (lines 211-227): the def at line 212 raised during the import,
\* so the route was never added to the app
create_job(job) == Unanswered("create_job", job)

\* GET /v1/jobs/{job_id} (lines 249-254): never defined
get_job_status(job_id) == Unanswered("get_job_status", job_id)

\* GET /health (lines 294-317): never defined
health == Unanswered("health", None)

NextGateway ==
    \/ import_main
    \/ \E job \in JobRequests : create_job(job)
    \/ \E job_id \in UUID : get_job_status(job_id)
    \/ health

SpecGateway == Init /\ [][NextGateway]_vars

\* ------------------------------------------------- automation-api: run_jcl
\* The automation-api has two builds of POST /run-jcl: app/degraded.py (a sync
\* endpoint: requests run concurrently on worker threads) and app/main.py.
Variants == {"degraded", "main"}

\* exit codes of the ansible-playbook child process in the model
ExitCodes == {0, 2}

\* bytes that are not UTF-8 text (hex 50 4c 41 59 20 ff fe)
NotUtf8 == "504c415920fffe"

\* what the child has written to stdout and stderr when it ends or is killed:
\* text, or bytes on either stream that do not decode
Outputs == {[stdout |-> "PLAY [zos]", stderr |-> "WARNING: unreachable"],
            [stdout |-> "PLAY [zos]", stderr |-> NotUtf8]}

\* reading what the child wrote as text raises UnicodeDecodeError: the
\* text-mode reads of degraded.py lines 72-75, the decoding subprocess.run
\* does under text=True (main.py lines 191-196)
DecodeRaises(out) == NotUtf8 \in {out.stdout, out.stderr}

\* jcl_result.json in the scratch directory when the child has ended: absent,
\* a JSON document (an empty object or not), text that is not JSON
\* (json.JSONDecodeError), bytes that are not text (UnicodeDecodeError)
ResultFiles == {"absent", "json", "empty_json", "not_json", "not_text"}

\* the artifacts each build downloads, in order (degraded.py lines 40-42,
\* main.py lines 265-282), and those whose download failure aborts the request
Artifacts(v) ==
    IF v = "degraded" THEN <<"playbook", "jcl", "key">>
    ELSE <<"playbook", "inventory", "jcl", "var">>
Required(v) ==
    IF v = "degraded" THEN {"playbook", "jcl", "key"}
    ELSE {"playbook", "inventory", "jcl"}

\* what run_jcl leaves alone: the gateway and the requests under build
ApiFrame ==
    /\ NoLookup
    /\ UNCHANGED <<gateway, calls, key_req, key_out>>

\* the scratch directory tempfile.TemporaryDirectory() creates for the n-th
\* request: a new name under the temporary root at every call
TmpDir(n) == <<"/tmp", <<"tmp", n>>>>

\* permission modes: 0o600 of degraded.py line 43, and the modes a downloaded
\* file is created with (0o666 less the umask: 0o644 under umask 022, 0o600
\* under umask 077)
OwnerReadWrite == 384
CreateModes == {420, 384}

\* main.py: run_jcl is `async def` and calls boto3 and subprocess.run
\* directly, and execute_ansible_playbook never suspends, so from line 242 to
\* its return the handler holds the event loop of the service
LoopBusy ==
    \E r \in DOMAIN runs : runs[r].variant = "main" /\ runs[r].pc # "done"

\* POST /run-jcl, degraded.py lines 32-37 (main.py lines 242-251): the job id
\* is the first 8 characters of a new UUID; the scratch directory is created
\* under a new name. main.py starts the handler when the event loop is free.
run_jcl_begin(u, v) ==
    /\ Len(runs) < MaxRuns
    /\ v = "main" => ~LoopBusy
    /\ Uuid4(u)
    /\ runs' = Append(runs, [variant |-> v, job_id |-> First8(u), pc |-> "download",
                             dir |-> TmpDir(Len(runs) + 1), key_mode |-> None,
                             scratch |-> TRUE, files |-> {}, next |-> 1,
                             fetch_failed |-> {}, engine_starts |-> 0,
                             engine_running |-> FALSE, timed_out |-> FALSE,
                             execution_id |-> None,
                             output |-> None, returncode |-> None,
                             result_file |-> "absent", response |-> None])
    /\ ApiFrame

\* Answered that keeps the scratch directory after a timeout
Answered_keep(run, resp) ==
    [run EXCEPT !.pc = "done", !.scratch = (resp.code = 408),
                !.response = Some(resp)]

\* the request leaves the `with` block and answers: the scratch directory and
\* everything under it is removed (TemporaryDirectory.__exit__), then the
\* response is returned or the exception handled
Answered(run, resp) ==
    [run EXCEPT !.pc = "done", !.scratch = FALSE, !.files = {},
                !.key_mode = None, !.response = Some(resp)]

\* the response to an exception other than a timeout: degraded.py lines
\* 105-107 raise HTTPException(500, str(e)); main.py lines 323-332 return
\* the JSON body {job_id, status: "failed", error}
ErrorResponse(r, cause) ==
    IF runs[r].variant = "degraded"
    THEN [code |-> 500, kind |-> "error", detail |-> cause]
    ELSE [code |-> 500, kind |-> "failed", job_id |-> runs[r].job_id,
          error |-> cause]

\* the artifact request r downloads next
Current(r) == Artifacts(runs[r].variant)[runs[r].next]

\* the position after the download of the artifact at index n
AfterDownload(v, n) ==
    IF n < Len(Artifacts(v)) THEN "download"
    ELSE IF v = "degraded" THEN "chmod" ELSE "execute"

\* degraded.py lines 40-42, main.py lines 265-273 and 282: s3.download_file
\* writes the next artifact into the scratch directory
\* (the key file is created with the mode the umask leaves)
run_jcl_download(r) ==
    /\ r \in DOMAIN runs /\ runs[r].pc = "download"
    /\ \E m \in CreateModes :
          runs' = [runs EXCEPT ![r] =
                  [@ EXCEPT !.files = @ \cup {Current(r)},
                            !.key_mode = IF Current(r) = "key" THEN Some(m) ELSE @,
                            !.next = @ + 1,
                            !.pc = AfterDownload(runs[r].variant, runs[r].next)]]
    /\ UNCHANGED issued
    /\ ApiFrame

\* run_jcl_download_fails that goes on after any failed download
run_jcl_download_fails_goes_on(r) ==
    /\ r \in DOMAIN runs /\ runs[r].pc = "download"
    /\ runs' = [runs EXCEPT ![r] =
                  [@ EXCEPT !.fetch_failed = @ \cup {Current(r)},
                            !.next = @ + 1,
                            !.pc = AfterDownload(runs[r].variant, runs[r].next)]]
    /\ UNCHANGED issued
    /\ ApiFrame

\* s3.download_file raises. A required artifact: the exception leaves the
\* `with` block (degraded.py lines 105-107, main.py lines 87-89 and 323-332).
\* var.yml (main.py lines 280-286): the exception is logged and run_jcl goes on
run_jcl_download_fails(r) ==
    /\ r \in DOMAIN runs /\ runs[r].pc = "download"
    /\ runs' = [runs EXCEPT ![r] =
         LET failed == [@ EXCEPT !.fetch_failed = @ \cup {Current(r)}] IN
         IF Current(r) \in Required(runs[r].variant)
         THEN Answered(failed, ErrorResponse(r, "download failed"))
         ELSE [failed EXCEPT !.next = @ + 1,
                             !.pc = AfterDownload(runs[r].variant, runs[r].next)]]
    /\ UNCHANGED issued
    /\ ApiFrame

\* degraded.py line 43: os.chmod(key_path, 0o600)
run_jcl_chmod(r) ==
    /\ r \in DOMAIN runs /\ runs[r].pc = "chmod"
    /\ runs' = [runs EXCEPT ![r] = [@ EXCEPT !.pc = "spawn",
                                             !.key_mode = Some(OwnerReadWrite)]]
    /\ UNCHANGED issued
    /\ ApiFrame

\* main.py lines 298 and 172: execute_ansible_playbook is entered and draws
\* execution_id, the first 8 characters of a second UUID
run_jcl_execute(r, u) ==
    /\ r \in DOMAIN runs /\ runs[r].pc = "execute"
    /\ Uuid4(u)
    /\ runs' = [runs EXCEPT ![r] = [@ EXCEPT !.pc = "spawn",
                                             !.execution_id = Some(First8(u))]]
    /\ ApiFrame

\* run_jcl_spawn that starts the engine again after a run that failed
run_jcl_spawn_retry(r) ==
    /\ r \in DOMAIN runs
    /\ \/ runs[r].pc = "spawn"
       \/ runs[r].pc = "respond" /\ runs[r].returncode # Some(0)
                                 /\ runs[r].engine_starts < 2
    /\ runs' = [runs EXCEPT ![r] = [@ EXCEPT !.pc = "running",
                                             !.engine_starts = @ + 1,
                                             !.engine_running = TRUE]]
    /\ UNCHANGED issued
    /\ ApiFrame

\* degraded.py lines 66-71, main.py lines 191-196: subprocess.run starts the
\* ansible-playbook child process and waits for it
run_jcl_spawn(r) ==
    /\ r \in DOMAIN runs /\ runs[r].pc = "spawn"
    /\ runs' = [runs EXCEPT ![r] = [@ EXCEPT !.pc = "running",
                                             !.engine_starts = @ + 1,
                                             !.engine_running = TRUE]]
    /\ UNCHANGED issued
    /\ ApiFrame

\* the HTTPException(500) an exception e in or around subprocess.run ends in:
\* degraded.py lines 105-107 give str(e) as the detail; main.py lines 215-217
\* put "Playbook execution failed: " before it, and lines 321-322 re-raise
EngineError(v, cause) ==
    [code |-> 500, kind |-> "error",
     detail |-> IF v = "degraded" THEN cause
                ELSE "Playbook execution failed: " \o cause]

\* subprocess.run cannot start the child (OSError)
run_jcl_spawn_fails(r) ==
    /\ r \in DOMAIN runs /\ runs[r].pc = "spawn"
    /\ runs' = [runs EXCEPT ![r] =
                  Answered(@, EngineError(runs[r].variant, "spawn failed"))]
    /\ UNCHANGED issued
    /\ ApiFrame

\* the child ends within the timeout with exit code rc, having written out
\* and left jcl_result.json in state res (main.py never looks at that file).
\* degraded.py lines 67-71: the output went to files. main.py lines 191-196:
\* subprocess.run decodes the captured output, and bytes that do not decode
\* end the request at lines 215-217
run_jcl_exit(r, rc, out, res) ==
    /\ r \in DOMAIN runs /\ runs[r].pc = "running"
    /\ runs[r].variant = "main" => res = "absent"
    /\ runs' = [runs EXCEPT ![r] =
         LET ended == [@ EXCEPT !.engine_running = FALSE,
                                !.output = Some(out),
                                !.returncode = Some(rc),
                                !.result_file = res] IN
         IF runs[r].variant = "main" /\ DecodeRaises(out)
         THEN Answered(ended, EngineError("main", "output is not text"))
         ELSE [ended EXCEPT !.pc = "respond"]]
    /\ UNCHANGED issued
    /\ ApiFrame

\* the body of HTTPException(408): degraded.py line 102, main.py lines 211-214;
\* out is what the child had written when it was killed
TimeoutResponse(v, out) ==
    [code |-> 408, kind |-> "timeout",
     detail |-> IF v = "degraded" THEN "Playbook timed out"
                ELSE "Playbook execution timed out after 30 minutes"]

\* run_jcl_timeout with the timeout handled by the generic handler
run_jcl_timeout_generic(r, out) ==
    /\ r \in DOMAIN runs /\ runs[r].pc = "running"
    /\ runs' = [runs EXCEPT ![r] =
                  Answered([@ EXCEPT !.output = Some(out), !.timed_out = TRUE,
                                     !.engine_running = FALSE],
                           ErrorResponse(r, "timed out"))]
    /\ UNCHANGED issued
    /\ ApiFrame

\* run_jcl_timeout that answers without ending the child
run_jcl_timeout_no_kill(r, out) ==
    /\ r \in DOMAIN runs /\ runs[r].pc = "running"
    /\ runs' = [runs EXCEPT ![r] =
                  Answered([@ EXCEPT !.output = Some(out), !.timed_out = TRUE],
                           TimeoutResponse(runs[r].variant, out))]
    /\ UNCHANGED issued
    /\ ApiFrame

\* the child runs past timeout=1800 having written out: subprocess.run kills
\* it (Popen.kill), waits for it and raises TimeoutExpired (degraded.py lines
\* 67-71 and 100-102, main.py lines 191-196, 209-214 and 321-322)
run_jcl_timeout(r, out) ==
    /\ r \in DOMAIN runs /\ runs[r].pc = "running"
    /\ runs' = [runs EXCEPT ![r] =
                  Answered([@ EXCEPT !.output = Some(out), !.timed_out = TRUE,
                                     !.engine_running = FALSE],
                           TimeoutResponse(runs[r].variant, out))]
    /\ UNCHANGED issued
    /\ ApiFrame

\* degraded.py lines 79-86: jcl_result after the result file has been read;
\* None is Python's None. Only json.JSONDecodeError is caught.
ParsedResult(res) ==
    CASE res = "json" -> Some("json")
      [] res = "empty_json" -> Some("empty_json")
      [] OTHER -> None

\* degraded.py line 84: json.load raises an exception the handler of line 85
\* does not catch
ResultReadRaises(res) == res = "not_text"

\* the fields the completed bodies of degraded.py lines 88-98 and main.py
\* lines 304-319 share
CompletedBody(run) ==
    [code |-> 200, kind |-> "completed", job_id |-> run.job_id,
     success |-> (run.returncode = Some(0)),
     exit_code |-> run.returncode[1],
     stdout |-> run.output[1].stdout, stderr |-> run.output[1].stderr]

\* main.py line 261: jcl_local = os.path.join(tmpdir, "jcl", jcl_file), for
\* the default jcl_file; a path is the sequence of its components
JclLocal(run) == run.dir \o <<"jcl", "GENER3">>

\* degraded.py line 97 adds the key "jcl_result" when the parsed value is
\* truthy (an empty object is not); main.py lines 310 and 315 add
\* "jcl_local_path": jcl_local and "execution_id"
CompletedResponse(run) ==
    IF run.variant = "main"
    THEN DictSet(DictSet(CompletedBody(run), "jcl_local_path", JclLocal(run)),
                 "execution_id", run.execution_id[1])
    ELSE IF ParsedResult(run.result_file) \in {None, Some("empty_json")}
    THEN CompletedBody(run)
    ELSE DictSet(CompletedBody(run), "jcl_result",
                 ParsedResult(run.result_file)[1])

\* degraded.py lines 72-98: read stdout.txt and stderr.txt as text, then
\* jcl_result.json, and return the completed body (the jcl_result key is left
\* out when the parsed value is falsy); a decoding error of lines 72-75 or of
\* line 84 goes to lines 105-107.
\* main.py lines 198-207 and 304-319: the completed body
run_jcl_return(r) ==
    /\ r \in DOMAIN runs /\ runs[r].pc = "respond"
    /\ runs' = [runs EXCEPT ![r] =
         IF runs[r].variant = "main" THEN Answered(@, CompletedResponse(@))
         ELSE IF DecodeRaises(runs[r].output[1])
         THEN Answered(@, EngineError("degraded", "output is not text"))
         ELSE IF ResultReadRaises(runs[r].result_file)
         THEN Answered(@, EngineError("degraded", "result is not text"))
         ELSE Answered(@, CompletedResponse(@))]
    /\ UNCHANGED issued
    /\ ApiFrame

\* GET /health of the automation-api: degraded.py lines 21-23 (a sync
\* endpoint, served on a worker thread), main.py lines 67-69 (`async def`,
\* served by the event loop when it is free)
api_health(v) ==
    /\ v = "main" => ~LoopBusy
    /\ observed' = [kind |-> "health", body |-> [status |-> "ok"]]
    /\ UNCHANGED <<gateway, calls, issued, runs, key_req, key_out>>

NextApi ==
    \/ \E u \in UUID, v \in Variants : run_jcl_begin(u, v)
    \/ \E r \in 1..MaxRuns : run_jcl_download(r)
    \/ \E r \in 1..MaxRuns : run_jcl_download_fails(r)
    \/ \E r \in 1..MaxRuns : run_jcl_chmod(r)
    \/ \E r \in 1..MaxRuns, u \in UUID : run_jcl_execute(r, u)
    \/ \E r \in 1..MaxRuns : run_jcl_spawn(r)
    \/ \E r \in 1..MaxRuns : run_jcl_spawn_fails(r)
    \/ \E r \in 1..MaxRuns, rc \in ExitCodes, out \in Outputs, res \in ResultFiles :
          run_jcl_exit(r, rc, out, res)
    \/ \E r \in 1..MaxRuns, out \in Outputs : run_jcl_timeout(r, out)
    \/ \E r \in 1..MaxRuns : run_jcl_return(r)

SpecApi == Init /\ [][NextApi]_vars

\* the automation-api under health probes: run_jcl requests are served while
\* GET /health is asked of either build
NextApiProbe ==
    \/ NextApi
    \/ \E v \in Variants : api_health(v)

SpecApiProbe == Init /\ [][NextApiProbe]_vars

\* ---------------------------------------------- automation-api: S3 keys
\* Python strings whose characters matter are sequences of characters
Slash == "/"
S3Prefixes == {<<>>, <<"t", "e", "a", "m", "A">>, <<"t", "e", "a", "m", "A", "/">>,
               <<"/", "t", "e", "a", "m", "A">>, <<"/">>,
               <<"/", "t", "e", "a", "m", "A", "/">>, <<"t", "e", "a", "m", "A", "/", "/">>}
PlaybookNames == {<<"p", "b", ".", "y", "m", "l">>, <<"/", "p", "b", ".", "y", "m", "l">>}
JclFiles == {<<"F", "O", "O">>, <<"G", "E", "N", "E", "R", "3">>}
InventoryName == <<"i", "n", "v", "e", "n", "t", "o", "r", "y", ".", "y", "m", "l">>

\* the requests whose keys the model builds: build, s3_prefix, playbook_name,
\* jcl_file (inventory_name keeps its default)
KeyRequests ==
    [variant : Variants, s3_prefix : S3Prefixes,
     playbook_name : PlaybookNames, jcl_file : JclFiles]

\* str.lstrip("/")
RECURSIVE LStrip(_)
LStrip(str) ==
    IF str # <<>> /\ Head(str) = Slash THEN LStrip(Tail(str)) ELSE str

\* DegradedPrefix without lstrip and without the test for an empty prefix
DegradedPrefix_raw(s3_prefix) == s3_prefix \o <<Slash>>

\* degraded.py line 32: f"{s3_prefix}/".lstrip("/") if s3_prefix else ""
DegradedPrefix(s3_prefix) ==
    IF s3_prefix # <<>> THEN LStrip(s3_prefix \o <<Slash>>) ELSE <<>>

\* the artifact paths before the prefix is joined: degraded.py lines 40-42,
\* main.py lines 254-256 and 276
BarePaths(req) ==
    IF req.variant = "degraded"
    THEN [playbook |-> <<"a", "n", "s", "i", "b", "l", "e", "/", "p", "l", "a", "y", "b", "o", "o", "k", "s", "/">>
                         \o req.playbook_name,
          jcl |-> <<"a", "n", "s", "i", "b", "l", "e", "/", "j", "c", "l", "/">> \o req.jcl_file,
          key |-> <<"m", "a", "i", "n", "f", "r", "a", "m", "e", "_", "k", "e", "y", ".", "p", "e", "m">>]
    ELSE [playbook |-> req.playbook_name,
          inventory |-> InventoryName,
          jcl |-> <<"j", "c", "l", "/">> \o req.jcl_file,
          var |-> <<"v", "a", "r", ".", "y", "m", "l">>]

\* the object keys run_jcl asks the store for: degraded.py lines 32 and 40-42
\* (prefix, then the path; the key file is asked for without the prefix),
\* main.py lines 254-256 and 276 (s3_prefix, then the path, then lstrip("/"))
S3Keys(req) ==
    LET bare == BarePaths(req) IN
    IF req.variant = "degraded"
    THEN [a \in DOMAIN bare |->
            IF a = "key" THEN bare[a]
            ELSE DegradedPrefix(req.s3_prefix) \o bare[a]]
    ELSE [a \in DOMAIN bare |-> LStrip(req.s3_prefix \o bare[a])]

InitKeys ==
    /\ gateway = "importing"
    /\ calls = << >>
    /\ issued = {}
    /\ observed = [kind |-> "none"]
    /\ runs = << >>
    /\ key_req \in {Some(req) : req \in KeyRequests}
    /\ key_out = None

\* run_jcl builds the keys of the request
build_keys ==
    /\ key_req # None /\ key_out = None
    /\ key_out' = Some(S3Keys(key_req[1]))
    /\ UNCHANGED <<gateway, calls, issued, observed, runs, key_req>>

NextKeys == build_keys

SpecKeys == InitKeys /\ [][NextKeys]_vars

\* ------------------------------------ automation-api: engine variables
\* main.py lines 275-302 and 183-186. A dict is the sequence of its
\* <<key, value>> pairs in insertion order. A string value is a literal, a
\* template "{{ key }}", or a template Jinja2 cannot compile ("{{ key").
Lit(text) == [kind |-> "lit", text |-> text]
Ref(key) == [kind |-> "ref", key |-> key]
Bad(key) == [kind |-> "bad", key |-> key]

\* dict operations: keys, d[k], k in d
Keys(d) == {d[i][1] : i \in DOMAIN d}
Get(d, k) == d[CHOOSE i \in DOMAIN d : d[i][1] = k][2]

\* d[k] = v: the value is replaced in place, a new key is appended
Assign(d, k, v) ==
    IF k \in Keys(d)
    THEN [i \in DOMAIN d |-> IF d[i][1] = k THEN <<k, v>> ELSE d[i]]
    ELSE Append(d, <<k, v>>)

\* MergeDicts in which the first dict wins
RECURSIVE MergeDicts_first(_, _)
MergeDicts_first(a, b) ==
    IF b = <<>> THEN a
    ELSE MergeDicts_first(IF Head(b)[1] \in Keys(a) THEN a
                          ELSE Append(a, Head(b)), Tail(b))

\* {**a, **b}
RECURSIVE MergeDicts(_, _)
MergeDicts(a, b) ==
    IF b = <<>> THEN a
    ELSE MergeDicts(Assign(a, Head(b)[1], Head(b)[2]), Tail(b))

\* process_value (lines 103-122) on a string: a template is rendered with the
\* context, an undefined name renders as the empty string, a template that
\* fails is returned as it is (lines 114-116)
ProcessValue(value, context) ==
    CASE value.kind = "lit" -> value
      [] value.kind = "bad" -> value
      [] value.kind = "ref" ->
            IF value.key \in Keys(context) THEN Get(context, value.key)
            ELSE Lit("")

\* render_jinja2_variables (lines 92-142): two passes over the dict
RenderPass(variables, context) ==
    [i \in DOMAIN variables |->
        <<variables[i][1], ProcessValue(variables[i][2], context)>>]
RenderJinja2Variables(variables) ==
    LET rendered_vars == RenderPass(variables, variables)
    IN RenderPass(rendered_vars, rendered_vars)

\* what the store holds as var.yml: nothing (download_file raises 404), an
\* object the download of which fails, a file yaml.safe_load rejects, a YAML
\* list (variables.items() raises at line 128), an empty file, or a mapping
VarYmlFiles ==
    {[state |-> "absent"], [state |-> "download_error"],
     [state |-> "not_yaml"], [state |-> "not_mapping"], [state |-> "empty"]}
    \cup {[state |-> "mapping", content |-> c] : c \in
            {<<<<"hlq", Lit("GAMA12")>>>>,
             <<<<"hlq", Lit("GAMA12")>>, <<"dsn", Ref("hlq")>>>>,
             <<<<"dsn", Ref("hlq")>>, <<"hlq", Ref("user")>>,
               <<"user", Lit("ibmuser")>>>>,
             <<<<"hlq", Bad("user")>>>>,
             <<<<"jcl_file", Lit("OTHER")>>, <<"hlq", Lit("GAMA12")>>>>,
             <<<<"target_host", Lit("zos1")>>, <<"dsn", Ref("missing")>>>>}}

\* the extra_vars of the request: None or a dict
ExtraVars ==
    {None} \cup {Some(d) : d \in
        {<<>>,
         <<<<"hlq", Lit("TEAMB")>>>>,
         <<<<"target_host", Lit("zos2")>>, <<"hlq", Lit("TEAMB")>>>>,
         <<<<"jcl_file", Lit("EVIL")>>>>,
         <<<<"dsn", Ref("hlq")>>, <<"opt", Lit("x")>>>>}}

VarRequests == [var_yml : VarYmlFiles, extra_vars : ExtraVars]

\* lines 282-283 raise: download_from_s3 (lines 87-89) or load_yaml_vars
\* (lines 161-163) re-raises what it caught
VarYmlRaises(file) ==
    file.state \in {"absent", "download_error", "not_yaml", "not_mapping"}

\* load_yaml_vars (lines 145-163) on a file that loads: None becomes {}
LoadYamlVars(file) ==
    IF file.state = "empty" THEN <<>>
    ELSE RenderJinja2Variables(file.content)

\* var_data after lines 278-286: {} unless var.yml was downloaded and loaded
VarData(file) == IF VarYmlRaises(file) THEN <<>> ELSE LoadYamlVars(file)

\* jcl_local (line 261) of the request, written as one string
JclLocalPath == Lit("/tmp/tmpk3v9x2aq/jcl/GENER3")

\* lines 289-292: merged_vars
MergedVars(req) ==
    LET extra_vars == IF req.extra_vars = None THEN <<>> ELSE req.extra_vars[1]
    IN Assign(MergeDicts(VarData(req.var_yml), extra_vars),
              "jcl_file", JclLocalPath)

\* execute_ansible_playbook lines 177-186: the command line, one
\* "-e", f"{key}={value}" pair for every variable
RECURSIVE ExtraVarArgs(_)
ExtraVarArgs(d) ==
    IF d = <<>> THEN <<>>
    ELSE <<"-e", <<Head(d)[1], "=", Head(d)[2]>>>> \o ExtraVarArgs(Tail(d))
Command(extra_vars) ==
    <<"ansible-playbook", "-i", "inventory_local", "playbook_local">>
        \o ExtraVarArgs(extra_vars)

\* RunVars that gives up when var.yml cannot be loaded
RunVars_abort(req) ==
    IF VarYmlRaises(req.var_yml)
    THEN [engine_invoked |-> FALSE, command |-> <<>>, variables_loaded |-> <<>>]
    ELSE [engine_invoked |-> TRUE,
          command |-> Command(MergedVars(req)),
          variables_loaded |->
              [i \in DOMAIN VarData(req.var_yml) |-> VarData(req.var_yml)[i][1]]]

\* run_jcl lines 275-319 for what concerns the variables: the engine is
\* invoked with the command, and the body lists the keys of var_data
RunVars(req) ==
    [engine_invoked |-> TRUE,
     command |-> Command(MergedVars(req)),
     variables_loaded |->
         [i \in DOMAIN VarData(req.var_yml) |-> VarData(req.var_yml)[i][1]]]

InitVars ==
    /\ gateway = "importing"
    /\ calls = << >>
    /\ issued = {}
    /\ observed = [kind |-> "none"]
    /\ runs = << >>
    /\ key_req \in {Some(req) : req \in VarRequests}
    /\ key_out = None

\* run_jcl builds the variables of the request and invokes the engine
build_vars ==
    /\ key_req # None /\ key_out = None
    /\ key_out' = Some(RunVars(key_req[1]))
    /\ UNCHANGED <<gateway, calls, issued, observed, runs, key_req>>

NextVars == build_vars

SpecVars == InitVars /\ [][NextVars]_vars

\* ------------------------------------------------------------ properties
\* the requests sent to a route of the gateway
CallsOf(route) == {i \in DOMAIN calls : calls[i].route = route}

\* C9: create_job always answers a POST /v1/jobs with status PENDING, under
\* the job id it has stored a PENDING record for
C9_CreatedPendingAndFound ==
    \A i \in CallsOf("create_job") :
        /\ calls[i].answer # None
        /\ calls[i].answer[1].status = "PENDING"

\* C10: no two accepted requests are given the same job_id: no two run_jcl
\* requests report the same job_id (the gateway accepts no request)
C10_JobIdsUnique ==
    \A r, q \in DOMAIN runs : r # q => runs[r].job_id # runs[q].job_id

\* C11: get_job_status answers 404 when no record was created under the
\* identifier, which is the case of every identifier: create_job stores none
C11_StatusOrNotFound ==
    \A i \in CallsOf("get_job_status") :
        calls[i].answer = Some([code |-> 404, detail |-> "Job not found"])

\* the run_jcl requests that have returned or raised
DoneRuns == {r \in DOMAIN runs : runs[r].pc = "done"}

\* C12: once run_jcl has returned or raised, whatever the outcome, the scratch
\* directory of the request and everything under it no longer exists
C12_ScratchRemoved ==
    \A r \in DoneRuns : ~runs[r].scratch /\ runs[r].files = {}

\* C12 witness: one request has ended in a timeout and another in an error
C12_Witness ==
    \E r, q \in DoneRuns :
        /\ runs[r].response[1].code = 408
        /\ runs[q].response[1].code = 500 /\ runs[q].engine_starts = 1

\* C13: a request whose child ran past the timeout ends with the timeout
\* outcome (HTTP 408), never with a completed, failed or generic 500 answer
C13_TimeoutYields408 ==
    \A r \in DoneRuns :
        runs[r].timed_out =>
            /\ runs[r].response[1].code = 408
            /\ runs[r].response[1].kind = "timeout"

\* C13 witness: a request of each build has timed out
C13_Witness ==
    \E r, q \in DoneRuns :
        /\ runs[r].timed_out /\ runs[r].variant = "degraded"
        /\ runs[q].timed_out /\ runs[q].variant = "main"
        /\ DecodeRaises(runs[q].output[1])

\* the response carries the stdout and stderr the child wrote
CarriesOutput(resp, out) ==
    /\ {"stdout", "stderr"} \subseteq DOMAIN resp
    /\ resp.stdout = out.stdout
    /\ resp.stderr = out.stderr

\* C14: the timeout outcome, and every failure outcome, carries the stdout and
\* stderr the child had written before it ended or was terminated
C14_TimeoutCarriesOutput ==
    \A r \in DoneRuns :
        (runs[r].timed_out \/ runs[r].returncode \notin {None, Some(0)}) =>
            CarriesOutput(runs[r].response[1], runs[r].output[1])

\* C15: a zero exit code with a result file that cannot be parsed, for any
\* kind of parse or decoding error, yields the completed response with
\* success = true and no result payload
C15_UnparseableResultIsSuccess ==
    \A r \in DoneRuns :
        (runs[r].returncode = Some(0)
            /\ runs[r].result_file \in {"not_json", "not_text"}) =>
            /\ runs[r].response[1].kind = "completed"
            /\ runs[r].response[1].success
            /\ "jcl_result" \notin DOMAIN runs[r].response[1]

\* C16: every non-zero exit code yields the completed response with
\* success = false, that exit code and the captured stdout and stderr, whether
\* or not jcl_result.json exists or parses
C16_NonZeroExitIsFailure ==
    \A r \in DoneRuns :
        runs[r].returncode \notin {None, Some(0)} =>
            /\ runs[r].response[1].kind = "completed"
            /\ ~runs[r].response[1].success
            /\ Some(runs[r].response[1].exit_code) = runs[r].returncode
            /\ CarriesOutput(runs[r].response[1], runs[r].output[1])

\* C19: a request with a required artifact that could not be fetched never
\* starts the engine and ends with a failure outcome; the engine runs only
\* with every required artifact downloaded into the scratch directory
C19_NoEngineWithoutArtifacts ==
    \A r \in DOMAIN runs :
        /\ runs[r].fetch_failed \cap Required(runs[r].variant) # {} =>
              /\ runs[r].engine_starts = 0
              /\ runs[r].pc = "done"
              /\ runs[r].response[1].code = 500
        /\ runs[r].engine_running =>
              /\ runs[r].scratch
              /\ Required(runs[r].variant) \subseteq runs[r].files

\* C19 witness: one request has failed on a missing artifact while the engine
\* of another runs
C19_Witness ==
    \E r, q \in DOMAIN runs :
        /\ runs[r].fetch_failed \cap Required(runs[r].variant) # {}
        /\ runs[q].engine_running

\* C20: every invocation is single-shot: the engine is started at most once
\* for a run_jcl request, whatever its outcome (no run_job execution exists
\* to be repeated: create_job takes no job id)
C20_SingleShot ==
    [][ \A r \in DOMAIN runs' : runs'[r].engine_starts <= 1 ]_vars

\* C20 witness: requests have ended in a non-zero exit and in a timeout after
\* one start of the engine
C20_Witness ==
    \E r, q \in DoneRuns :
        /\ runs[r].returncode = Some(2) /\ runs[r].engine_starts = 1
        /\ runs[q].timed_out /\ runs[q].engine_starts = 1

\* the key is the path with S3 prefix 'teamA' joined by exactly one separator
JoinedOnce(key, path) == key = <<"t", "e", "a", "m", "A", "/">> \o path

\* the artifacts whose path run_jcl joins with the prefix: all but the key
\* file of degraded.py line 42
PrefixJoined(req) == DOMAIN BarePaths(req) \ {"key"}

\* C17: for s3_prefix 'teamA' and for s3_prefix 'teamA/' the key built for a
\* path is 'teamA/' followed by the path: exactly one separator between them
C17_OneSeparator ==
    (key_out # None
        /\ key_req[1].s3_prefix \in {<<"t", "e", "a", "m", "A">>,
                                     <<"t", "e", "a", "m", "A", "/">>}) =>
        \A a \in PrefixJoined(key_req[1]) :
            JoinedOnce(key_out[1][a], BarePaths(key_req[1])[a])

\* C18 as stated: for an empty s3_prefix every key requested is exactly the
\* bare artifact path
C18_EmptyPrefixBareKey ==
    (key_out # None /\ key_req[1].s3_prefix = <<>>) =>
        \A a \in DOMAIN key_out[1] : key_out[1][a] = BarePaths(key_req[1])[a]

\* C18 amended: for an empty s3_prefix no separator is added: every key
\* requested is the bare artifact path, or, in main.py for a path that begins
\* with separators, that path without its leading separators
C18_EmptyPrefixNothingAdded ==
    (key_out # None /\ key_req[1].s3_prefix = <<>>) =>
        \A a \in DOMAIN key_out[1] :
            LET key == key_out[1][a]
                bare == BarePaths(key_req[1])[a] IN
            \/ key = bare
            \/ /\ key_req[1].variant = "main"
               /\ Head(bare) = Slash
               /\ Len(key) < Len(bare)
               /\ key = SubSeq(bare, Len(bare) - Len(key) + 1, Len(bare))
               /\ \A i \in 1..(Len(bare) - Len(key)) : bare[i] = Slash
               /\ Head(key) # Slash

\* C18 witness: the keys of a degraded.py request with an empty prefix are
\* built
C18_Witness ==
    /\ key_out # None
    /\ key_req[1].s3_prefix = <<>>
    /\ key_req[1].variant = "degraded"
    /\ key_out[1].jcl = <<"a", "n", "s", "i", "b", "l", "e", "/", "j", "c", "l", "/">> \o <<"F", "O", "O">>

\* C26: in every reachable state the endpoint served at /health answers with
\* status "ok"
C26_HealthAlwaysOk ==
    /\ observed.kind = "health" => observed.body.status = "ok"
    /\ \A i \in CallsOf("health") : calls[i].answer = Some([status |-> "ok"])

\* C21: the downloaded key file never exists in the scratch directory with a
\* mode other than 0600, and the engine is never started while the key is
\* unrestricted
C21_KeyAlwaysRestricted ==
    \A r \in DOMAIN runs :
        /\ "key" \in runs[r].files => runs[r].key_mode = Some(OwnerReadWrite)
        /\ runs[r].engine_running /\ "key" \in runs[r].files =>
              runs[r].key_mode = Some(OwnerReadWrite)

\* C22: while a run_jcl execution waits for the engine child process, a
\* health request to the same service can be served
C22_HealthServedDuringRun ==
    \A r \in DOMAIN runs :
        runs[r].engine_running => ENABLED api_health(runs[r].variant)

\* the two requests got the same job id and went the same way: same build,
\* same failed downloads, same end of the engine, same output, same result file
SameButDir(a, b) ==
    /\ a.variant = b.variant /\ a.job_id = b.job_id
    /\ a.execution_id = b.execution_id
    /\ a.fetch_failed = b.fetch_failed /\ a.engine_starts = b.engine_starts
    /\ a.timed_out = b.timed_out /\ a.returncode = b.returncode
    /\ a.output = b.output /\ a.result_file = b.result_file

\* C25: two run_jcl requests that differ only in the location of their
\* scratch directory get identical response bodies
C25_ResponseHidesScratchPath ==
    \A r, q \in DoneRuns :
        SameButDir(runs[r], runs[q]) => runs[r].response = runs[q].response

\* the body reports a null result with a note
ReportsNullResult(resp) ==
    /\ {"jcl_result", "note"} \subseteq DOMAIN resp
    /\ resp.jcl_result = None

\* C29: after exit code 0 with no jcl_result.json the completed response has
\* success = true and reports a null result with a note; a result file that
\* parses is always reported, an empty object included
C29_AbsentResultNoted ==
    \A r \in DoneRuns :
        (runs[r].variant = "degraded" /\ runs[r].returncode = Some(0)) =>
            /\ runs[r].result_file = "absent" =>
                  /\ runs[r].response[1].kind = "completed"
                  /\ runs[r].response[1].success
                  /\ ReportsNullResult(runs[r].response[1])
            /\ runs[r].result_file \in {"json", "empty_json"} =>
                  /\ "jcl_result" \in DOMAIN runs[r].response[1]
                  /\ runs[r].response[1].jcl_result = runs[r].result_file

\* C30: once run_jcl has answered with the timeout outcome, the engine child
\* process of the request no longer runs and its scratch directory is gone
C30_TimeoutKillsChild ==
    \A r \in DoneRuns :
        runs[r].response[1].code = 408 =>
            /\ ~runs[r].engine_running
            /\ ~runs[r].scratch /\ runs[r].files = {}

\* C30 witness: a request has answered 408 after its child had written output,
\* while the engine of another request still runs
C30_Witness ==
    \E r \in DoneRuns, q \in DOMAIN runs :
        /\ runs[r].response[1].code = 408
        /\ runs[r].output = Some([stdout |-> "PLAY [zos]",
                                  stderr |-> "WARNING: unreachable"])
        /\ runs[q].engine_running

\* the variable the command line passes to the engine under key k, if any
PassedValues(command, k) ==
    {command[i][3] : i \in {i \in DOMAIN command :
                               /\ i > 1 /\ command[i - 1] = "-e"
                               /\ command[i] # "-e" /\ Len(command[i]) = 3
                               /\ command[i][1] = k}}

\* the extra_vars dict of a request, {} for None
ExtraOf(req) == IF req.extra_vars = None THEN <<>> ELSE req.extra_vars[1]

\* C27: a key of both var.yml and extra_vars is passed to the engine with the
\* value of extra_vars, a key of only one of them with its value there, and
\* jcl_file always with the local path of the downloaded JCL file
C27_ExtraVarsWin ==
    key_out # None =>
        LET req == key_req[1]
            command == key_out[1].command
            var_data == VarData(req.var_yml)
            all == Keys(var_data) \cup Keys(ExtraOf(req)) \cup {"jcl_file"}
        IN /\ key_out[1].engine_invoked
           /\ \A k \in all :
                PassedValues(command, k) =
                    IF k = "jcl_file" THEN {JclLocalPath}
                    ELSE IF k \in Keys(ExtraOf(req)) THEN {Get(ExtraOf(req), k)}
                    ELSE {Get(var_data, k)}
           /\ Len(command) = 4 + 2 * Cardinality(all)

\* C27 witness: var.yml and extra_vars share the key hlq, each has a key of
\* its own, and the engine got the hlq of extra_vars
C27_Witness ==
    /\ key_out # None
    /\ key_req[1].var_yml.state = "mapping"
    /\ {"hlq", "dsn"} \subseteq Keys(key_req[1].var_yml.content)
    /\ key_req[1].extra_vars # None
    /\ {"hlq", "target_host"} \subseteq Keys(key_req[1].extra_vars[1])
    /\ PassedValues(key_out[1].command, "hlq") = {Lit("TEAMB")}

\* var.yml could not be used: it is absent, its download fails, it does not
\* load, or one of its values does not render
VarYmlUnusable(file) ==
    \/ VarYmlRaises(file)
    \/ file.state = "mapping"
          /\ \E i \in DOMAIN file.content : file.content[i][2].kind = "bad"

\* the engine got exactly the request's extra_vars plus jcl_file, and the body
\* lists no loaded variable
OnlyExtraVars(req, out) ==
    /\ out.engine_invoked
    /\ out.command = Command(Assign(ExtraOf(req), "jcl_file", JclLocalPath))
    /\ out.variables_loaded = <<>>

\* C28 as stated: when var.yml is absent, fails to download, or fails to load
\* or render, the engine is still invoked, with exactly the request's
\* extra_vars plus jcl_file, and variables_loaded is empty
C28_VarYmlOptional ==
    (key_out # None /\ VarYmlUnusable(key_req[1].var_yml)) =>
        OnlyExtraVars(key_req[1], key_out[1])

\* C28 amended: when the download or load_yaml_vars raises (var.yml absent,
\* download failure, invalid YAML, top level not a mapping) the engine is
\* still invoked with exactly the request's extra_vars plus jcl_file and
\* variables_loaded is empty; a value whose template does not render is kept
\* as written and var.yml counts as loaded
C28_VarYmlOptionalWhenRaising ==
    key_out # None =>
        /\ key_out[1].engine_invoked
        /\ VarYmlRaises(key_req[1].var_yml) =>
              OnlyExtraVars(key_req[1], key_out[1])
        /\ (~VarYmlRaises(key_req[1].var_yml)
               /\ VarYmlUnusable(key_req[1].var_yml)) =>
              LET content == key_req[1].var_yml.content IN
              /\ key_out[1].variables_loaded =
                    [i \in DOMAIN content |-> content[i][1]]
              /\ \A i \in DOMAIN content :
                    (content[i][2].kind = "bad"
                        /\ content[i][1] \notin
                              Keys(ExtraOf(key_req[1])) \cup {"jcl_file"}) =>
                    PassedValues(key_out[1].command, content[i][1])
                        = {content[i][2]}

\* C28 witness: var.yml is a YAML list, the request has extra_vars, and the
\* engine was invoked with them
C28_Witness ==
    /\ key_out # None
    /\ key_req[1].var_yml.state = "not_mapping"
    /\ key_req[1].extra_vars = Some(<<<<"hlq", Lit("TEAMB")>>>>)
    /\ key_out[1].engine_invoked
    /\ PassedValues(key_out[1].command, "hlq") = {Lit("TEAMB")}

====
